---- MODULE Spec2Model ----
(***************************************************************************)
(* Model of handler.py: the serverless job handler that resolves an audio  *)
(* input to a temporary file, then runs transcription, alignment and       *)
(* optional diarization through whisperx and returns the result, or an     *)
(* error string built in the handler's single except clause.               *)
(*                                                                         *)
(* One worker serves jobs one after another.  Each call into a helper or   *)
(* into whisperx is one step; an external capability either returns a      *)
(* value or raises, chosen nondeterministically.                           *)
(*                                                                         *)
(* Optional values (dict.get without default, None) are encoded as a       *)
(* sequence: <<>> is None / key absent, <<v>> is the value v.              *)
(***************************************************************************)
EXTENDS Integers, Sequences, FiniteSets, TLC

VARIABLES pc, jobs, job_input, audio_input, fs, nextTemp, created, calls,
          response, loadedPath, result, alignOut, diarArgs, ret, outcome,
          exc, failed

vars == <<pc, jobs, job_input, audio_input, fs, nextTemp, created, calls,
          response, loadedPath, result, alignOut, diarArgs, ret, outcome,
          exc, failed>>

\* Number of jobs the harness hands to the worker in one run.
MaxJobs == 2

\* Number of distinct outputs an external capability can produce.
MaxOut == 2

None == <<>>

Some(v) == <<v>>

\* response.status_code value accepted by download_file.
HTTP_OK == 200

\* The literal passed to str.startswith, as a sequence of characters.
HttpPrefix == <<"h", "t", "t", "p">>

\* str.startswith(p)
StartsWith(s, p) == Len(s) >= Len(p) /\ SubSeq(s, 1, Len(p)) = p

\* Python truthiness of an optional string given as characters or as a
\* TLA+ string: None and the empty string are falsy.
TruthyChars(o) == o # None /\ o[1] # <<>>

TruthyStr(o) == o # None /\ o[1] # ""

\* dict.get(key, default)
GetOr(o, default) == IF o = None THEN default ELSE o[1]

\* ---------------------------------------------------------------- inputs

Base64Inputs == {None, Some(""), Some("QUJD"), Some("QUJ")}

UrlInputs ==
    {None, Some(<<>>),
     Some(<<"f", "t", "p", ":", "/", "/", "h">>),
     Some(<<"h", "t", "t">>),
     Some(<<"h", "t", "t", "p", ":", "/", "/", "h">>)}

DiarizeInputs == {None, Some(FALSE), Some(TRUE)}

SpeakerInputs == {None, Some(0), Some(2)}

JobInputs ==
    [audio_base_64 : Base64Inputs, audio_url : UrlInputs,
     diarize : DiarizeInputs,
     min_speakers : SpeakerInputs, max_speakers : SpeakerInputs]

EmptyInput ==
    [audio_base_64 |-> None, audio_url |-> None, diarize |-> None,
     min_speakers |-> None, max_speakers |-> None]

\* Exceptions an external capability may raise: str(e), e.args and the
\* formatted traceback, all as text.  str(e) of an exception built with no
\* arguments is the empty string.
Exceptions ==
    {[str |-> "", args |-> "()", tb |-> "  File handler.py"],
     [str |-> "boom", args |-> "('boom',)", tb |-> "  File handler.py"]}

DecodeExc ==
    [str |-> "Incorrect padding", args |-> "('Incorrect padding',)",
     tb |-> "  File handler.py, line 22"]

DownloadExc ==
    [str |-> "Failed to download file from URL",
     args |-> "('Failed to download file from URL',)",
     tb |-> "  File handler.py, line 37"]

ConnectExc ==
    [str |-> "Connection refused", args |-> "('Connection refused',)",
     tb |-> "  File handler.py, line 35"]

\* What requests.get can do: raise, or answer with a status code.
Responses ==
    {[raised |-> TRUE, status |-> 0]} \cup
    {[raised |-> FALSE, status |-> s] : s \in {HTTP_OK, 404, 500}}

OutIds == 1..MaxOut

NoResult == [producer |-> "none", segments |-> 0, turns |-> 0]

NoRet == [type |-> "none", str |-> "", dict |-> NoResult]

StrRet(s) == [type |-> "str", str |-> s, dict |-> NoResult]

DictRet(d) == [type |-> "dict", str |-> "", dict |-> d]

\* ------------------------------------------------------- pure helpers

\* base64.b64decode on the sampled inputs: "QUJD" decodes to b"ABC";
\* "QUJ" has incorrect padding and raises binascii.Error.
B64Decode(s) ==
    CASE s = "QUJD" -> [raised |-> FALSE, bytes |-> <<65, 66, 67>>]
      [] s = "" -> [raised |-> FALSE, bytes |-> <<>>]
      [] OTHER -> [raised |-> TRUE, bytes |-> <<>>]

\* Mutant: a second file is opened next to the NamedTemporaryFile.
base64_to_tempfile_two_files(data, fresh) ==
    IF B64Decode(data).raised
    THEN [raised |-> TRUE, exc |-> DecodeExc, created |-> {}, path |-> 0]
    ELSE [raised |-> FALSE, exc |-> DecodeExc,
          created |-> {fresh, fresh + 1}, path |-> fresh + 1]

\* base64_to_tempfile(base64_data); fresh is the name NamedTemporaryFile
\* picks.  The later open() is on the same name.
base64_to_tempfile(data, fresh) ==
    IF B64Decode(data).raised
    THEN [raised |-> TRUE, exc |-> DecodeExc, created |-> {}, path |-> 0]
    ELSE [raised |-> FALSE, exc |-> DecodeExc,
          created |-> {fresh}, path |-> fresh]

\* Mutant: the temporary file is created before the status is checked.
download_file_write_first(resp, fresh) ==
    IF resp.raised
    THEN [raised |-> TRUE, exc |-> ConnectExc, created |-> {}, path |-> 0]
    ELSE IF resp.status # HTTP_OK
    THEN [raised |-> TRUE, exc |-> DownloadExc, created |-> {fresh},
          path |-> 0]
    ELSE [raised |-> FALSE, exc |-> DownloadExc, created |-> {fresh},
          path |-> fresh]

\* download_file(url) given what requests.get did.
download_file(resp, fresh) ==
    IF resp.raised
    THEN [raised |-> TRUE, exc |-> ConnectExc, created |-> {}, path |-> 0]
    ELSE IF resp.status # HTTP_OK
    THEN [raised |-> TRUE, exc |-> DownloadExc, created |-> {}, path |-> 0]
    ELSE [raised |-> FALSE, exc |-> DownloadExc, created |-> {fresh},
          path |-> fresh]

\* Mutant: the remote address wins when both sources are given.
UseBase64_url_first(j) ==
    /\ TruthyStr(j.audio_base_64)
    /\ ~(TruthyChars(j.audio_url) /\ StartsWith(j.audio_url[1], HttpPrefix))

\* if job_input_audio_base_64:
UseBase64(j) == TruthyStr(j.audio_base_64)

\* Mutant: the scheme prefix is not checked.
UseUrl_no_prefix(j) == TruthyChars(j.audio_url)

\* elif job_input_audio_url and job_input_audio_url.startswith('http'):
UseUrl(j) ==
    TruthyChars(j.audio_url) /\ StartsWith(j.audio_url[1], HttpPrefix)

\* Mutant: diarization is on unless switched off.
Diarize_default_on(j) == GetOr(j.diarize, TRUE)

\* diarize = job_input.get('diarize', False), as tested by `if diarize:`
Diarize(j) == GetOr(j.diarize, FALSE)

NoBounds == [min_speakers |-> None, max_speakers |-> None]

\* Mutant: whichever bound is supplied is passed on.
DiarizeKwargs_pass_any(j) ==
    [min_speakers |-> j.min_speakers, max_speakers |-> j.max_speakers]

\* Keyword arguments of the diarize_model(audio, ...) call.
DiarizeKwargs(j) ==
    IF j.min_speakers # None /\ j.max_speakers # None
    THEN [min_speakers |-> j.min_speakers, max_speakers |-> j.max_speakers]
    ELSE NoBounds

\* The f-string of the except clause.
ErrorValue(e) ==
    "Error transcribing audio: " \o e.str \o ", Args: " \o e.args
        \o ", Traceback: " \o e.tb

\* Mutant: a diarization failure is best-effort and returns the aligned
\* result.
ExceptReturn_best_effort(stage, e, r) ==
    IF stage = "diarize_model" THEN DictRet(r) ELSE StrRet(ErrorValue(e))

\* Value returned by `except Exception as e:` when stage raised e while the
\* local `result` held r.
ExceptReturn(stage, e, r) == StrRet(ErrorValue(e))

\* Mutant: diarization is started right after transcription.
Succ_diarize_early(stage, d) ==
    CASE stage = "resolve" -> "load_model"
      [] stage = "load_model" -> "load_audio"
      [] stage = "load_audio" -> "transcribe"
      [] stage = "transcribe" -> "DiarizationPipeline"
      [] stage = "load_align_model" -> "align"
      [] stage = "align" -> "return"
      [] stage = "DiarizationPipeline" -> "diarize_model"
      [] stage = "diarize_model" -> "assign_word_speakers"
      [] OTHER -> "load_align_model"

\* The statement the handler reaches after stage completed without raising.
Succ(stage, d) ==
    CASE stage = "resolve" -> "load_model"
      [] stage = "load_model" -> "load_audio"
      [] stage = "load_audio" -> "transcribe"
      [] stage = "transcribe" -> "load_align_model"
      [] stage = "load_align_model" -> "align"
      [] stage = "align" -> IF d THEN "DiarizationPipeline" ELSE "return"
      [] stage = "DiarizationPipeline" -> "diarize_model"
      [] stage = "diarize_model" -> "assign_word_speakers"
      [] OTHER -> "return"

\* ------------------------------------------------------------ the worker

Init ==
    /\ pc = "idle"
    /\ jobs = 0
    /\ job_input = EmptyInput
    /\ audio_input = None
    /\ fs = {}
    /\ nextTemp = 1
    /\ created = {}
    /\ calls = <<>>
    /\ response = None
    /\ loadedPath = None
    /\ result = NoResult
    /\ alignOut = NoResult
    /\ diarArgs = None
    /\ ret = NoRet
    /\ outcome = "none"
    /\ exc = None
    /\ failed = "none"

\* The harness calls handler(event): job_input = event['input'].  Temporary
\* files are the only state of the worker that outlives a job.
ReceiveJob ==
    /\ pc \in {"idle", "done"}
    /\ jobs < MaxJobs
    /\ jobs' = jobs + 1
    /\ job_input' \in JobInputs
    /\ pc' = "resolve"
    /\ audio_input' = None
    /\ created' = {}
    /\ calls' = <<>>
    /\ response' = None
    /\ loadedPath' = None
    /\ result' = NoResult
    /\ alignOut' = NoResult
    /\ diarArgs' = None
    /\ ret' = NoRet
    /\ outcome' = "running"
    /\ exc' = None
    /\ failed' = "none"
    /\ UNCHANGED <<fs, nextTemp>>

\* An exception raised outside the try statement leaves handler.
Escape(stage, e) ==
    /\ pc' = "done"
    /\ outcome' = "raised"
    /\ exc' = Some(e)
    /\ failed' = stage
    /\ UNCHANGED <<audio_input, ret>>

\* An exception raised inside the try statement is turned into the
\* returned string.
Caught(stage, e) ==
    /\ pc' = "done"
    /\ outcome' = "returned"
    /\ exc' = Some(e)
    /\ failed' = stage
    /\ ret' = ExceptReturn(stage, e, result)

\* A statement inside the try completed; go on with the next one.
Proceed(stage) ==
    /\ pc' = Succ(stage, Diarize(job_input))
    /\ UNCHANGED <<outcome, exc, failed, ret>>

\* audio_input = base64_to_tempfile(job_input_audio_base_64)
ResolveBase64 ==
    /\ pc = "resolve"
    /\ UseBase64(job_input)
    /\ LET r == base64_to_tempfile(job_input.audio_base_64[1], nextTemp)
       IN /\ calls' = Append(calls, "base64_to_tempfile")
          /\ fs' = fs \cup r.created
          /\ created' = created \cup r.created
          /\ nextTemp' = nextTemp + Cardinality(r.created)
          /\ IF r.raised
             THEN Escape("base64_to_tempfile", r.exc)
             ELSE /\ audio_input' = Some(r.path)
                  /\ pc' = Succ("resolve", Diarize(job_input))
                  /\ UNCHANGED <<outcome, exc, failed, ret>>
    /\ UNCHANGED <<jobs, job_input, response, loadedPath, result, alignOut,
                   diarArgs>>

\* audio_input = download_file(job_input_audio_url)
ResolveUrl ==
    /\ pc = "resolve"
    /\ ~UseBase64(job_input)
    /\ UseUrl(job_input)
    /\ \E resp \in Responses :
         LET r == download_file(resp, nextTemp)
         IN /\ response' = Some(resp)
            /\ calls' = Append(calls, "download_file")
            /\ fs' = fs \cup r.created
            /\ created' = created \cup r.created
            /\ nextTemp' = nextTemp + Cardinality(r.created)
            /\ IF r.raised
               THEN Escape("download_file", r.exc)
               ELSE /\ audio_input' = Some(r.path)
                    /\ pc' = Succ("resolve", Diarize(job_input))
                    /\ UNCHANGED <<outcome, exc, failed, ret>>
    /\ UNCHANGED <<jobs, job_input, loadedPath, result, alignOut, diarArgs>>

\* return "No audio input provided"
NoAudioInput ==
    /\ pc = "resolve"
    /\ ~UseBase64(job_input)
    /\ ~UseUrl(job_input)
    /\ ret' = StrRet("No audio input provided")
    /\ outcome' = "returned"
    /\ pc' = "done"
    /\ UNCHANGED <<jobs, job_input, audio_input, fs, nextTemp, created,
                   calls, response, loadedPath, result, alignOut, diarArgs,
                   exc, failed>>

\* model = whisperx.load_model(...)
LoadModel ==
    /\ pc = "load_model"
    /\ calls' = Append(calls, "load_model")
    /\ \/ Proceed("load_model")
       \/ \E e \in Exceptions : Caught("load_model", e)
    /\ UNCHANGED <<jobs, job_input, audio_input, fs, nextTemp, created,
                   response, loadedPath, result, alignOut, diarArgs>>

\* audio = whisperx.load_audio(audio_input)
LoadAudio ==
    /\ pc = "load_audio"
    /\ calls' = Append(calls, "load_audio")
    /\ loadedPath' = audio_input
    /\ \/ Proceed("load_audio")
       \/ \E e \in Exceptions : Caught("load_audio", e)
    /\ UNCHANGED <<jobs, job_input, audio_input, fs, nextTemp, created,
                   response, result, alignOut, diarArgs>>

\* result = model.transcribe(audio, ...)
Transcribe ==
    /\ pc = "transcribe"
    /\ calls' = Append(calls, "transcribe")
    /\ \/ /\ \E s \in OutIds :
               result' = [producer |-> "transcribe", segments |-> s,
                          turns |-> 0]
          /\ Proceed("transcribe")
       \/ /\ \E e \in Exceptions : Caught("transcribe", e)
          /\ UNCHANGED result
    /\ UNCHANGED <<jobs, job_input, audio_input, fs, nextTemp, created,
                   response, loadedPath, alignOut, diarArgs>>

\* model_a, metadata = whisperx.load_align_model(...)
LoadAlignModel ==
    /\ pc = "load_align_model"
    /\ calls' = Append(calls, "load_align_model")
    /\ \/ Proceed("load_align_model")
       \/ \E e \in Exceptions : Caught("load_align_model", e)
    /\ UNCHANGED <<jobs, job_input, audio_input, fs, nextTemp, created,
                   response, loadedPath, result, alignOut, diarArgs>>

\* result = whisperx.align(result["segments"], ...)
Align ==
    /\ pc = "align"
    /\ calls' = Append(calls, "align")
    /\ \/ /\ \E s \in OutIds :
               /\ result' = [producer |-> "align", segments |-> s,
                             turns |-> 0]
               /\ alignOut' = result'
          /\ Proceed("align")
       \/ /\ \E e \in Exceptions : Caught("align", e)
          /\ UNCHANGED <<result, alignOut>>
    /\ UNCHANGED <<jobs, job_input, audio_input, fs, nextTemp, created,
                   response, loadedPath, diarArgs>>

\* diarize_model = whisperx.DiarizationPipeline(...)
MakeDiarizationPipeline ==
    /\ pc = "DiarizationPipeline"
    /\ calls' = Append(calls, "DiarizationPipeline")
    /\ \/ Proceed("DiarizationPipeline")
       \/ \E e \in Exceptions : Caught("DiarizationPipeline", e)
    /\ UNCHANGED <<jobs, job_input, audio_input, fs, nextTemp, created,
                   response, loadedPath, result, alignOut, diarArgs>>

\* diarize_segments = diarize_model(audio, ...); the turns it returns are
\* carried to assign_word_speakers in diarArgs.turns.
DiarizeModel ==
    /\ pc = "diarize_model"
    /\ calls' = Append(calls, "diarize_model")
    /\ \/ /\ \E t \in OutIds :
               diarArgs' = Some([kwargs |-> DiarizeKwargs(job_input),
                                 turns |-> t])
          /\ Proceed("diarize_model")
       \/ /\ diarArgs' = Some([kwargs |-> DiarizeKwargs(job_input),
                               turns |-> 0])
          /\ \E e \in Exceptions : Caught("diarize_model", e)
    /\ UNCHANGED <<jobs, job_input, audio_input, fs, nextTemp, created,
                   response, loadedPath, result, alignOut>>

\* result = whisperx.assign_word_speakers(diarize_segments, result)
AssignWordSpeakers ==
    /\ pc = "assign_word_speakers"
    /\ calls' = Append(calls, "assign_word_speakers")
    /\ \/ /\ result' = [producer |-> "assign_word_speakers",
                        segments |-> result.segments,
                        turns |-> diarArgs[1].turns]
          /\ Proceed("assign_word_speakers")
       \/ /\ \E e \in Exceptions : Caught("assign_word_speakers", e)
          /\ UNCHANGED result
    /\ UNCHANGED <<jobs, job_input, audio_input, fs, nextTemp, created,
                   response, loadedPath, alignOut, diarArgs>>

\* return result
ReturnResult ==
    /\ pc = "return"
    /\ ret' = DictRet(result)
    /\ outcome' = "returned"
    /\ pc' = "done"
    /\ UNCHANGED <<jobs, job_input, audio_input, fs, nextTemp, created,
                   calls, response, loadedPath, result, alignOut, diarArgs,
                   exc, failed>>

Next ==
    \/ ReceiveJob
    \/ ResolveBase64
    \/ ResolveUrl
    \/ NoAudioInput
    \/ LoadModel
    \/ LoadAudio
    \/ Transcribe
    \/ LoadAlignModel
    \/ Align
    \/ MakeDiarizationPipeline
    \/ DiarizeModel
    \/ AssignWordSpeakers
    \/ ReturnResult

Spec == Init /\ [][Next]_vars

\* ------------------------------------------------------------ properties

Resolvers == {"base64_to_tempfile", "download_file"}

\* Every call made inside the try statement.
ModelStages ==
    {"load_model", "load_audio", "transcribe", "load_align_model", "align",
     "DiarizationPipeline", "diarize_model", "assign_word_speakers"}

DiarizationStages ==
    {"DiarizationPipeline", "diarize_model", "assign_word_speakers"}

Called == {calls[i] : i \in 1..Len(calls)}

\* The order of the calls of one job that resolves its input with r.
Pipeline(r) ==
    <<r, "load_model", "load_audio", "transcribe", "load_align_model",
      "align", "DiarizationPipeline", "diarize_model",
      "assign_word_speakers">>

IsPrefix(s, t) == Len(s) <= Len(t) /\ SubSeq(t, 1, Len(s)) = s

IsJobError(v) == v.type = "str" /\ Len(v.str) > 0 /\ v.dict = NoResult

\* C1: whenever a stage of a job has failed (input resolution, or any call
\* of the transcription, alignment, diarization and speaker assignment
\* stages), the job ends with handler returning an error value with a
\* non-empty message; the failure never leaves handler as an exception.
C1_FailureIsReturned ==
    (pc = "done" /\ failed # "none")
        => (outcome = "returned" /\ IsJobError(ret))

\* The audio sources of the job are both unusable: audio_base_64 absent or
\* empty, audio_url absent, empty or without the scheme prefix.
NeitherUsable ==
    /\ job_input.audio_base_64 \in {None, Some("")}
    /\ \/ job_input.audio_url \in {None, Some(<<>>)}
       \/ Len(job_input.audio_url[1]) < 4
       \/ \E i \in 1..4 :
             job_input.audio_url[1][i] # <<"h", "t", "t", "p">>[i]

\* C2: in a job with no usable audio source nothing is downloaded, no
\* temporary file is created and no stage is called, and the job ends by
\* returning "No audio input provided".
C2_NoInputNoWork ==
    (pc # "idle" /\ NeitherUsable)
        => /\ calls = <<>>
           /\ created = {}
           /\ response = None
           /\ outcome # "raised"
           /\ pc \in {"resolve", "done"}
           /\ pc = "done" =>
                 /\ outcome = "returned"
                 /\ ret = StrRet("No audio input provided")

C2_Witness ==
    /\ pc = "done"
    /\ job_input.audio_base_64 = Some("")
    /\ job_input.audio_url = Some(<<"f", "t", "p", ":", "/", "/", "h">>)
    /\ ret.str = "No audio input provided"

\* C3: when the remote answers the download with a status other than 200,
\* download_file raises its fetch error, the job has created no temporary
\* file, and download_file is the only call the job ever makes.
C3_BadStatusStopsJob ==
    (response # None /\ ~response[1].raised /\ response[1].status # 200)
        => /\ failed = "download_file"
           /\ exc = Some(DownloadExc)
           /\ created = {}
           /\ calls = <<"download_file">>
           /\ audio_input = None
           /\ pc = "done"

C3_Witness ==
    /\ pc = "done"
    /\ response = Some([raised |-> FALSE, status |-> 404])
    /\ failed = "download_file"

\* C4: when a job is complete, whether it returned a result or an error,
\* no temporary file it created still exists.
C4_TempFileDeleted == (pc = "done") => (created \cap fs = {})

\* C5: the calls of a job are an initial part of the fixed order resolver,
\* load_model, load_audio, transcribe, load_align_model, align,
\* DiarizationPipeline, diarize_model, assign_word_speakers (so each is made
\* at most once and none is re-entered), the statement the handler is at is
\* the one right after the last call, and a call is made after a failure
\* of no earlier one.
C5_LinearOrder ==
    /\ calls # <<>> =>
          /\ calls[1] \in Resolvers
          /\ IsPrefix(calls, Pipeline(calls[1]))
    /\ (pc \in ModelStages /\ calls # <<>>) =>
          /\ Len(calls) < 9
          /\ pc = Pipeline(calls[1])[Len(calls) + 1]
          /\ failed = "none"
    /\ pc = "return" => (failed = "none" /\ Len(calls) \in {6, 9})
    /\ pc \in ModelStages => calls # <<>>

C5_Witness ==
    /\ pc = "done"
    /\ outcome = "returned"
    /\ calls = Pipeline("download_file")

\* C6: whenever the diarization capability has been invoked, it was given
\* both bounds exactly as supplied if min_speakers and max_speakers were
\* both supplied, and no bound at all otherwise.
C6_BoundsBothOrNone ==
    diarArgs # None =>
        IF job_input.min_speakers # None /\ job_input.max_speakers # None
        THEN /\ diarArgs[1].kwargs.min_speakers = job_input.min_speakers
             /\ diarArgs[1].kwargs.max_speakers = job_input.max_speakers
        ELSE /\ diarArgs[1].kwargs.min_speakers = None
             /\ diarArgs[1].kwargs.max_speakers = None

C6_Witness ==
    /\ "diarize_model" \in Called
    /\ diarArgs # None
    /\ job_input.min_speakers = Some(0)
    /\ job_input.max_speakers = None

\* C7: the diarization capability and the speaker-assignment joiner are
\* called only in jobs whose diarize flag is true; a job whose flag is
\* false or absent and whose alignment succeeded returns exactly the
\* output of the alignment stage.
C7_DiarizeOnlyIfFlag ==
    /\ (Called \cap DiarizationStages # {} \/ diarArgs # None)
          => job_input.diarize = Some(TRUE)
    /\ (pc = "done" /\ job_input.diarize # Some(TRUE)
          /\ "align" \in Called /\ failed = "none")
          => /\ outcome = "returned"
             /\ ret.type = "dict"
             /\ ret.dict = alignOut
             /\ ret.dict.producer = "align"
             /\ ret.dict.turns = 0

C7_Witness ==
    /\ pc = "done"
    /\ job_input.diarize = None
    /\ "align" \in Called
    /\ failed = "none"
    /\ ret.type = "dict"

\* C8: a job creates at most one temporary file; once the job has an audio
\* handle it has created exactly one file, that file exists, it was not
\* there before the job, and it is the path given to load_audio.
C8_OneTempFile ==
    /\ Cardinality(created) <= 1
    /\ audio_input # None =>
          /\ created = {audio_input[1]}
          /\ audio_input[1] \in fs
    /\ loadedPath # None => created = {loadedPath[1]}

C8_Witness ==
    /\ jobs = 2
    /\ loadedPath # None
    /\ Cardinality(fs) = 2
    /\ "base64_to_tempfile" \in Called

\* C9: once a call inside the try statement has failed, it is the last call
\* of the job, and the job is over with the error string as its only
\* output: no result is returned, not even the aligned segments after a
\* failure of diarization.
C9_StopAtFirstFailure ==
    failed \in ModelStages =>
        /\ pc = "done"
        /\ calls[Len(calls)] = failed
        /\ outcome = "returned"
        /\ ret.type = "str"
        /\ ret.dict = NoResult
        /\ Len(ret.str) > 0

C9_Witness ==
    /\ failed = "diarize_model"
    /\ alignOut # NoResult
    /\ ret.type = "str"

\* C10: in a job whose audio_base_64 is present and non-empty nothing is
\* fetched, whatever audio_url holds, and the audio handle comes from
\* base64_to_tempfile; a download happens only in jobs whose audio_base_64
\* is absent or empty.
C10_InlineFirst ==
    /\ (pc # "idle" /\ job_input.audio_base_64 \notin {None, Some("")})
          => /\ "download_file" \notin Called
             /\ response = None
             /\ pc \notin {"resolve"} => calls[1] = "base64_to_tempfile"
    /\ ("download_file" \in Called \/ response # None)
          => job_input.audio_base_64 \in {None, Some("")}

C10_Witness ==
    /\ job_input.audio_base_64 = Some("QUJD")
    /\ job_input.audio_url = Some(<<"h", "t", "t", "p", ":", "/", "/", "h">>)
    /\ audio_input # None
    /\ calls[1] = "base64_to_tempfile"

====
